---- MODULE Spec2Model ----
(***************************************************************************)
(* Model of the SonarQube -> ServiceNow gateway (src/gateway/index.js).   *)
(*                                                                         *)
(* The process is a single-threaded event loop: a handler runs without    *)
(* interruption from one await of a network call or of a backoff sleep to *)
(* the next one.  Every action below is one such run: it consumes the     *)
(* completion of the call a request is suspended on and executes the      *)
(* handler up to its next suspension or to its response.                  *)
(***************************************************************************)
EXTENDS Integers, Sequences, FiniteSets, TLC

\* ---------------------------------------------------------------- bounds
MaxKeys == 2          \* longest accepted batch that is enumerated
MaxTok == 2           \* tokens the OAuth server issues in one behaviour
MaxTicks == 1         \* clock ticks in one behaviour
MaxRetries == 3       \* largest retry policy handed to retryOperation alone

\* ------------------------------------------------------ program constants
BufferMs == 300000
DefaultExpiresIn == 1800
MaxBatch == 50
OauthRetries == 3
SonarRetries == 2
IncidentRetries == 3
DefaultRetries == 3

Null == 0
\* one tick of the clock: the default lifetime less the safety buffer
TickMs == DefaultExpiresIn * 1000 - BufferMs

Procs == {"A", "B"}
\* distinct project keys, not in sorted order
KeyList == <<"k2", "k1", "k3", "k4">>
\* expires_in of the OAuth response, in seconds; 0 stands for an absent field
ExpiresInVals == {0, 300}

\* the same, with lifetimes on both sides of the buffer, for the token cache alone
ExpiresInAll == {0, 1, 300, 301, 3600}

\* the failures a downstream call can raise, by message: one per path of the catch
\* that behaves differently, and a second kind where the paths only differ in the text
OauthErrors == {"ServiceNow OAuth error", "ServiceNow OAuth unreachable",
                "ServiceNow token missing in response"}
SonarErrors == {"SonarQube API error", "SonarQube API unreachable"}
IncidentErrors == {"ServiceNow incident error: 401", "ServiceNow incident API unreachable"}
\* what an operation handed to retryOperation alone returns or raises
OpValues == {"V1", "V2"}
OpErrors == {"E1", "E2"}

VARIABLES
  cachedToken,   \* let cachedToken: Null, or the token of the last exchange stored
  tokenExpiry,   \* let tokenExpiry: Null, or the time in ms that token expires
  now,           \* Date.now()
  issued,        \* tokens the OAuth server has issued: the next one is issued + 1
  smtp,          \* SMTP_HOST, EMAIL_FROM and EMAIL_TO are all set
  req,           \* per request slot: the request, the locals of its handler, its response
  inval,         \* what the last 401 found, until an exchange stores a credential again
  rx             \* one call of retryOperation on an operation of the environment

vars == <<cachedToken, tokenExpiry, now, issued, smtp, req, inval, rx>>

\* ---------------------------------------------------------------- helpers
\* downstream calls made for the item at hand: the token acquisition of a request,
\* then each key of a batch, or the ticket of a webhook
NoCalls == [oauth |-> 0, sonar |-> 0, incident |-> 0, email |-> 0]

NoResponse == [code |-> 0]

\* const incident, before the ticket creation returned
NoTicket == <<>>

\* a request slot before any request arrived on it
Idle ==
  [pc |-> "idle", kind |-> "none", isArray |-> FALSE, projectKeys |-> <<>>,
   projectKey |-> "", status |-> "", deep |-> FALSE, sonarOk |-> FALSE,
   idx |-> 0, token |-> Null, results |-> <<>>, op |-> "none", attempt |-> 0,
   lastError |-> "none", incident |-> NoTicket, response |-> NoResponse,
   fresh |-> FALSE, calls |-> NoCalls, ev |-> {}]

\* ------------------------------------------------------------ retryOperation
\* every policy with one retry more
RetriesOneMore(op) ==
  CASE op = "oauth" -> OauthRetries + 1
    [] op = "sonar" -> SonarRetries + 1
    [] op = "incident" -> IncidentRetries + 1
    [] OTHER -> DefaultRetries + 1

Retries(op) ==
  CASE op = "oauth" -> OauthRetries
    [] op = "sonar" -> SonarRetries
    [] op = "incident" -> IncidentRetries
    [] OTHER -> DefaultRetries

\* while (attempt <= retries)
LoopGuard(attempt, retries) == attempt <= retries

\* a catch that keeps the first failure it saw
CaughtFirst(lastError, err) == IF lastError = "none" THEN err ELSE lastError

\* catch (err) { lastError = err; ...
Caught(lastError, err) == err

\* if (attempt === retries) break;
Exhausted(attempt, retries) == attempt = retries

\* throw lastError;
Thrown(lastError) == lastError

\* -------------------------------------------------------------- responses
\* res.json(...): the handler returns and its locals are gone
Respond(st, r) ==
  [Idle EXCEPT !.pc = "done", !.kind = st.kind, !.isArray = st.isArray,
               !.projectKeys = st.projectKeys, !.projectKey = st.projectKey,
               !.status = st.status, !.deep = st.deep, !.response = r, !.ev = st.ev]

BatchProcessed(st) ==
  Respond(st, [code |-> 200, message |-> "Batch processed", results |-> st.results])

BatchFatal(st, e) ==
  Respond(st, [code |-> 500, error |-> "Batch processing failed", details |-> e])

WebhookCreated(st) ==
  Respond(st, [code |-> 200, message |-> "Incident created from webhook",
               incident |-> st.incident])

WebhookFailed(st, e) ==
  Respond(st, [code |-> 500, error |-> "Webhook processing failed", details |-> e])

HealthDeep(st, oauthOk) ==
  Respond(st, [code |-> IF st.sonarOk /\ oauthOk THEN 200 ELSE 503,
               status |-> "ok", sonarqube |-> st.sonarOk, oauth_ok |-> oauthOk])

\* ------------------------------------------------------- downstream calls
BumpCall(st, what) == [st EXCEPT !.calls[what] = @ + 1]

\* axios.get of getSonarQubeProject: the request suspends on the read
IssueSonar(st) == [BumpCall(st, "sonar") EXCEPT !.pc = "sonar"]

\* axios.post of createServiceNowIncident: the request suspends on the call
IssueIncident(st) == [BumpCall(st, "incident") EXCEPT !.pc = "incident"]

\* transport.sendMail of sendIncidentEmail
IssueEmail(st) == [BumpCall(st, "email") EXCEPT !.pc = "email"]

\* axios.post of getServiceNowToken
IssueOauth(st) == [BumpCall(st, "oauth") EXCEPT !.pc = "oauth"]

\* let attempt = 0; let lastError;
StartRetry(st, label) == [st EXCEPT !.op = label, !.attempt = 0, !.lastError = "none"]

\* return await fn(): the locals of retryOperation are gone
EndRetry(st) == [st EXCEPT !.op = "none", !.attempt = 0, !.lastError = "none"]

\* ------------------------------------------------------------ batch loop
\* a loop that goes to the ticket creation without the read
ProcessKeyNoRead(st, i) ==
  IF i > Len(st.projectKeys)
  THEN BatchProcessed([st EXCEPT !.idx = i])
  ELSE IssueIncident(StartRetry([st EXCEPT !.idx = i, !.incident = NoTicket,
                                            !.calls = NoCalls], "incident"))

\* one iteration of for (const key of projectKeys), up to its first await;
\* past the last key the handler responds
ProcessKey(st, i) ==
  IF i > Len(st.projectKeys)
  THEN BatchProcessed([st EXCEPT !.idx = i])
  ELSE IssueSonar(StartRetry([st EXCEPT !.idx = i, !.incident = NoTicket,
                                          !.calls = NoCalls], "sonar"))

\* results.unshift in place of results.push
PushResultFront(st, rec) == [st EXCEPT !.results = <<rec>> \o @]

PushResult(st, rec) == [st EXCEPT !.results = Append(@, rec)]

NotFoundRecord(key) == [projectKey |-> key, status |-> "not_found"]

CreatedRecord(key, inc) ==
  [projectKey |-> key, status |-> "incident_created", incident |-> inc]

ErrorRecord(key, e) == [projectKey |-> key, status |-> "error", error |-> e]

CurrentKey(st) == st.projectKeys[st.idx]

\* the project the payload of a ticket-creation call is about
PayloadKey(st) == IF st.kind = "batch" THEN CurrentKey(st) ELSE st.projectKey

\* the ticket the ticketing service creates for a payload
Ticket(key) == <<"INC", key>>

\* what the handler does with a token returned by retryOperation(getServiceNowToken)
AfterToken(st, tok) ==
  LET s1 == [EndRetry(st) EXCEPT !.token = tok] IN
  CASE st.kind = "batch" -> ProcessKey([s1 EXCEPT !.results = <<>>], 1)
    [] st.kind = "webhook" ->
         IssueIncident(StartRetry([s1 EXCEPT !.calls = NoCalls], "incident"))
    [] OTHER -> HealthDeep(s1, tok # Null)

\* ------------------------------------------------------- getServiceNowToken
\* the check without the safety buffer
TokenValidNoBuffer(ct, te, t) == ct # Null /\ te # Null /\ t < te

\* the comparison with the expiry turned round
TokenValidInverted(ct, te, t) == ct # Null /\ te # Null /\ t > te - BufferMs

\* cachedToken && tokenExpiry && Date.now() < tokenExpiry - 300000
TokenValid(ct, te, t) == ct # Null /\ te # Null /\ t < te - BufferMs

\* data.expires_in || 1800
ExpiresIn(x) == IF x = 0 THEN DefaultExpiresIn ELSE x

\* a store that writes the token and leaves the expiry as null
ExpiryOfUnset(t, x) == Null

\* tokenExpiry = Date.now() + (expiresIn * 1000)
ExpiryOf(t, x) == t + ExpiresIn(x) * 1000

\* the call up to its first await: the cached token, or the OAuth exchange
GetServiceNowToken(st, ct, te, t) ==
  LET s1 == [st EXCEPT !.ev = @ \cup {"getServiceNowToken"}] IN
  IF TokenValid(ct, te, t)
  THEN AfterToken([s1 EXCEPT !.fresh = FALSE], ct)
  ELSE IssueOauth(s1)

\* fn() of the operation retryOperation is wrapping
CallFn(st, ct, te, t) ==
  CASE st.op = "oauth" -> GetServiceNowToken(st, ct, te, t)
    [] st.op = "sonar" -> IssueSonar(st)
    [] OTHER -> IssueIncident(st)

\* ------------------------------------------------- failures and the catches
\* a batch that goes on to its keys when the token acquisition failed
PropagatePartial(st, e) ==
  CASE st.kind = "batch" /\ st.idx = 0 -> ProcessKey([st EXCEPT !.results = <<>>], 1)
    [] st.kind = "batch" ->
         ProcessKey(PushResult(st, ErrorRecord(CurrentKey(st), e)), st.idx + 1)
    [] OTHER -> WebhookFailed(st, e)

\* a batch whose loop ends at the first key that failed
PropagateAborts(st, e) ==
  CASE st.kind = "batch" /\ st.idx = 0 -> BatchFatal(st, e)
    [] st.kind = "batch" ->
         BatchProcessed(PushResult(st, ErrorRecord(CurrentKey(st), e)))
    [] OTHER -> WebhookFailed(st, e)

\* the catch of the handler that called retryOperation
Propagate(st, e) ==
  CASE st.kind = "batch" /\ st.idx = 0 -> BatchFatal(st, e)
    [] st.kind = "batch" ->
         ProcessKey(PushResult(st, ErrorRecord(CurrentKey(st), e)), st.idx + 1)
    [] OTHER -> WebhookFailed(st, e)

\* the catch of retryOperation: remember the failure, give up or sleep
OnError(st, e) ==
  LET s1 == [st EXCEPT !.lastError = Caught(st.lastError, e)] IN
  IF Exhausted(st.attempt, Retries(st.op))
  THEN Propagate(EndRetry(s1), Thrown(s1.lastError))
  ELSE [s1 EXCEPT !.pc = "sleep"]

\* sendIncidentEmail returned: the record is pushed, the loop goes on
AfterEmail(st) ==
  IF st.kind = "batch"
  THEN ProcessKey(PushResult(st, CreatedRecord(CurrentKey(st), st.incident)), st.idx + 1)
  ELSE WebhookCreated(st)

\* sendIncidentEmail up to its await: skipped when SMTP is not configured
SendIncidentEmail(st, configured) ==
  IF ~configured THEN AfterEmail(st) ELSE IssueEmail(st)

\* ----------------------------------------------------------------- inputs
BatchBodies ==
  {[isArray |-> FALSE, projectKeys |-> <<>>]}
    \cup {[isArray |-> TRUE, projectKeys |-> SubSeq(KeyList, 1, n)] : n \in 0..MaxKeys}
    \cup {[isArray |-> TRUE, projectKeys |-> [i \in 1..n |-> "k1"]] : n \in 2..MaxKeys}
    \cup {[isArray |-> TRUE, projectKeys |-> [i \in 1..(MaxBatch + 1) |-> "k1"]]}

WebhookBodies == [projectKey : {"", "k1"}, status : {"OK", "ERROR", "absent"}]

\* ------------------------------------------------------------------ state
NoInval == [on |-> FALSE, token |-> Null, expiry |-> Null]

IdleRetry ==
  [pc |-> "idle", retries |-> 0, attempt |-> 0, lastError |-> "none", calls |-> 0,
   outcomes |-> <<>>, result |-> "none"]

Init ==
  /\ cachedToken = Null
  /\ tokenExpiry = Null
  /\ now = 0
  /\ issued = 0
  /\ smtp \in BOOLEAN
  /\ req = [p \in Procs |-> Idle]
  /\ inval = NoInval
  /\ rx = IdleRetry

Free(p) == req[p].pc \in {"idle", "done"}

\* the request on slot p handles event e and is left as st
Handled(p, e, st) == req' = [req EXCEPT ![p] = st]

\* the request as it takes up event e
On(st, e) == [st EXCEPT !.ev = {e}]

\* Date.now() moves on
Tick ==
  /\ now < MaxTicks * TickMs
  /\ now' = now + TickMs
  /\ UNCHANGED <<cachedToken, tokenExpiry, issued, smtp, req, inval, rx>>

\* the validation without its size limit
BatchRejectedNoLimit(b) ==
  IF ~b.isArray \/ Len(b.projectKeys) = 0
  THEN "projectKeys must be non-empty array"
  ELSE "accepted"

\* the validation of POST /create-incidents
BatchRejected(b) ==
  IF ~b.isArray \/ Len(b.projectKeys) = 0
  THEN "projectKeys must be non-empty array"
  ELSE IF Len(b.projectKeys) > MaxBatch
       THEN "projectKeys array too large (max 50)"
       ELSE "accepted"

\* the handler of POST /create-incidents up to its first await
CreateIncidentsHandler(s0, ct, te, t) ==
  IF BatchRejected(s0) # "accepted"
  THEN Respond(s0, [code |-> 400, error |-> BatchRejected(s0)])
  ELSE GetServiceNowToken(StartRetry(s0, "oauth"), ct, te, t)

CreateIncidents(p) ==
  /\ Free(p)
  /\ \E b \in BatchBodies :
       Handled(p, "POST /create-incidents",
               CreateIncidentsHandler(
                 On([Idle EXCEPT !.kind = "batch", !.isArray = b.isArray,
                                 !.projectKeys = b.projectKeys], "POST /create-incidents"),
                 cachedToken, tokenExpiry, now))
  /\ UNCHANGED <<cachedToken, tokenExpiry, now, issued, smtp, inval, rx>>

\* a handler that acts on the status ERROR only
WebhookActsOnError(status) == status = "ERROR"

\* if (status !== 'OK')
WebhookActs(status) == status # "OK"

\* the handler of POST /sonarqube-webhook up to its first await
SonarqubeWebhookHandler(s0, ct, te, t) ==
  IF s0.projectKey = ""
  THEN Respond(s0, [code |-> 400, error |-> "Missing project key in webhook payload"])
  ELSE IF WebhookActs(s0.status)
       THEN GetServiceNowToken(StartRetry(s0, "oauth"), ct, te, t)
       ELSE Respond(s0, [code |-> 200, message |-> "Quality Gate OK, no action needed"])

SonarqubeWebhook(p) ==
  /\ Free(p)
  /\ \E b \in WebhookBodies :
       Handled(p, "POST /sonarqube-webhook",
               SonarqubeWebhookHandler(
                 On([Idle EXCEPT !.kind = "webhook", !.projectKey = b.projectKey,
                                 !.status = b.status], "POST /sonarqube-webhook"),
                 cachedToken, tokenExpiry, now))
  /\ UNCHANGED <<cachedToken, tokenExpiry, now, issued, smtp, inval, rx>>

\* GET /healthz up to its first await
Healthz(p) ==
  /\ Free(p)
  /\ \E deep \in BOOLEAN :
       LET s0 == On([Idle EXCEPT !.kind = "healthz", !.deep = deep], "GET /healthz") IN
       Handled(p, "GET /healthz",
               IF ~deep THEN Respond(s0, [code |-> 200, status |-> "ok"])
               ELSE [s0 EXCEPT !.pc = "version"])
  /\ UNCHANGED <<cachedToken, tokenExpiry, now, issued, smtp, inval, rx>>

\* the deep health check's SonarQube version call ends; the OAuth check begins
HealthzVersion(p) ==
  /\ req[p].pc = "version"
  /\ \E ok \in BOOLEAN :
       Handled(p, "version",
               GetServiceNowToken([On(req[p], "version") EXCEPT !.sonarOk = ok, !.op = "health"],
                                  cachedToken, tokenExpiry, now))
  /\ UNCHANGED <<cachedToken, tokenExpiry, now, issued, smtp, inval, rx>>

\* an exchange that stores its credential only when the cache holds none
OauthOkKeepsFirst(p) ==
  /\ req[p].pc = "oauth"
  /\ issued < MaxTok
  /\ \E x \in ExpiresInVals :
       /\ cachedToken' = IF cachedToken # Null THEN cachedToken ELSE issued + 1
       /\ tokenExpiry' = IF cachedToken # Null THEN tokenExpiry ELSE ExpiryOf(now, x)
       /\ issued' = issued + 1
       /\ inval' = NoInval
       /\ Handled(p, "oauth_ok",
                  AfterToken([On(req[p], "oauth_ok") EXCEPT !.fresh = TRUE], issued + 1))
  /\ UNCHANGED <<now, smtp, rx>>

\* the OAuth exchange answers with an access_token: both cache fields are set
\* in the same run, and the handler goes on with the token
OauthStored(p, vals) ==
  /\ req[p].pc = "oauth"
  /\ issued < MaxTok
  /\ \E x \in vals :
       /\ cachedToken' = issued + 1
       /\ tokenExpiry' = ExpiryOf(now, x)
       /\ issued' = issued + 1
       /\ inval' = NoInval
       /\ Handled(p, "oauth_ok",
                  AfterToken([On(req[p], "oauth_ok") EXCEPT !.fresh = TRUE], issued + 1))
  /\ UNCHANGED <<now, smtp, rx>>

\* a catch that swallows the failure: the call returns without a token
OauthCatchSwallows(st, e) ==
  IF st.kind = "healthz" THEN HealthDeep(st, FALSE) ELSE AfterToken(st, Null)

OauthOk(p) == OauthStored(p, ExpiresInVals)

\* the same answer, with any of the lifetimes
OauthOkAny(p) == OauthStored(p, ExpiresInAll)

\* the deep health check calls getServiceNowToken without retryOperation
OauthCatch(st, e) ==
  IF st.kind = "healthz" THEN HealthDeep(st, FALSE) ELSE OnError(st, e)

\* the OAuth exchange fails, or answers without access_token
OauthFail(p) ==
  /\ req[p].pc = "oauth"
  /\ \E e \in OauthErrors : Handled(p, "oauth_fail", OauthCatch(On(req[p], "oauth_fail"), e))
  /\ UNCHANGED <<cachedToken, tokenExpiry, now, issued, smtp, inval, rx>>

\* attempt++, and the loop of retryOperation goes round
OnWake(st, ct, te, t) ==
  LET s1 == [st EXCEPT !.attempt = @ + 1] IN
  IF LoopGuard(s1.attempt, Retries(s1.op))
  THEN CallFn(s1, ct, te, t)
  ELSE Propagate(EndRetry(s1), Thrown(s1.lastError))

\* the backoff sleep ends
Wake(p) ==
  /\ req[p].pc = "sleep"
  /\ Handled(p, "wake", OnWake(On(req[p], "wake"), cachedToken, tokenExpiry, now))
  /\ UNCHANGED <<cachedToken, tokenExpiry, now, issued, smtp, inval, rx>>

\* a loop that notifies as soon as the component came back, before the ticket
OnFoundNotifiesFirst(st) == IssueEmail(EndRetry(st))

\* a loop that acquires the token anew for each key that was found
OnFoundRefetch(st) == IssueOauth(StartRetry(EndRetry(st), "oauth"))

\* a component came back: the payload is built and the ticket creation begins
OnFound(st) == IssueIncident(StartRetry(EndRetry(st), "incident"))

\* the loop without its check of the component
OnEmptyAsFound(st) == OnFound(st)

\* if (!component) { results.push({ projectKey: key, status: 'not_found' }); continue; }
OnEmpty(st) ==
  ProcessKey(PushResult(EndRetry(st), NotFoundRecord(CurrentKey(st))), st.idx + 1)

\* the quality service answers with a component
SonarFound(p) ==
  /\ req[p].pc = "sonar"
  /\ Handled(p, "sonar_found", OnFound(On(req[p], "sonar_found")))
  /\ UNCHANGED <<cachedToken, tokenExpiry, now, issued, smtp, inval, rx>>

\* the quality service answers with no component
SonarEmpty(p) ==
  /\ req[p].pc = "sonar"
  /\ Handled(p, "sonar_empty", OnEmpty(On(req[p], "sonar_empty")))
  /\ UNCHANGED <<cachedToken, tokenExpiry, now, issued, smtp, inval, rx>>

\* the quality service read fails
SonarFail(p) ==
  /\ req[p].pc = "sonar"
  /\ \E e \in SonarErrors : Handled(p, "sonar_fail", OnError(On(req[p], "sonar_fail"), e))
  /\ UNCHANGED <<cachedToken, tokenExpiry, now, issued, smtp, inval, rx>>

\* return data.result; then the notification
OnIncident(st, configured) ==
  SendIncidentEmail([EndRetry(st) EXCEPT !.incident = Ticket(PayloadKey(st))], configured)

\* the ticket is created
IncidentOk(p) ==
  /\ req[p].pc = "incident"
  /\ Handled(p, "incident_ok", OnIncident(On(req[p], "incident_ok"), smtp))
  /\ UNCHANGED <<cachedToken, tokenExpiry, now, issued, smtp, inval, rx>>

Unauthorized == "ServiceNow incident error: 401"

\* the status 403 taken for the authorization failure
IsAuthError403(e) == e = "ServiceNow incident error: 403"

\* error.response?.status === 401
IsAuthError(e) == e = Unauthorized

\* cachedToken = null; tokenExpiry = null; on a 401 only
Invalidate(e, field) == IF IsAuthError(e) THEN Null ELSE field

\* the ticket creation fails; a 401 clears both cache fields in the same run
IncidentFail(p) ==
  /\ req[p].pc = "incident"
  /\ \E e \in IncidentErrors :
       /\ cachedToken' = Invalidate(e, cachedToken)
       /\ tokenExpiry' = Invalidate(e, tokenExpiry)
       /\ inval' = IF e = Unauthorized
                   THEN [on |-> TRUE, token |-> req[p].token,
                         expiry |-> IF tokenExpiry # Null THEN tokenExpiry ELSE inval.expiry]
                   ELSE inval
       /\ Handled(p, "incident_fail", OnError(On(req[p], "incident_fail"), e))
  /\ UNCHANGED <<now, issued, smtp, rx>>

\* await transport.sendMail(...) resolved
EmailOk(st) == AfterEmail(st)

\* a catch that raises the failure of sendMail again
EmailCatchRethrows(st) == Propagate(st, "sendMail failed")

\* catch (error) { console.error(...) }: sendIncidentEmail returns all the same
EmailCatch(st) == AfterEmail(st)

\* the notification is sent
EmailSent(p) ==
  /\ req[p].pc = "email"
  /\ Handled(p, "email_sent", EmailOk(On(req[p], "email_sent")))
  /\ UNCHANGED <<cachedToken, tokenExpiry, now, issued, smtp, inval, rx>>

\* the notification fails
EmailFailed(p) ==
  /\ req[p].pc = "email"
  /\ Handled(p, "email_failed", EmailCatch(On(req[p], "email_failed")))
  /\ UNCHANGED <<cachedToken, tokenExpiry, now, issued, smtp, inval, rx>>

\* what a request on slot p can do
Gateway(p) ==
  \/ CreateIncidents(p)
  \/ SonarqubeWebhook(p)
  \/ Healthz(p)
  \/ HealthzVersion(p)
  \/ OauthOk(p)
  \/ OauthFail(p)
  \/ Wake(p)
  \/ SonarFound(p)
  \/ SonarEmpty(p)
  \/ SonarFail(p)
  \/ IncidentOk(p)
  \/ IncidentFail(p)
  \/ EmailSent(p)
  \/ EmailFailed(p)

\* requests handled one after the other
Next == Tick \/ Gateway("A")

Spec == Init /\ [][Next]_vars

\* the call or the sleep the request on slot p is suspended on ends
Completes(p) ==
  \/ HealthzVersion(p)
  \/ OauthOk(p)
  \/ OauthFail(p)
  \/ Wake(p)
  \/ SonarFound(p)
  \/ SonarEmpty(p)
  \/ SonarFail(p)
  \/ IncidentOk(p)
  \/ IncidentFail(p)
  \/ EmailSent(p)
  \/ EmailFailed(p)

\* every axios call has a timeout and every sleep a finite delay: what a request
\* waits for does end
FairCompletion == WF_vars(Completes("A"))

\* one request after the other while the clock stands still
NextLive == Gateway("A")

SpecLive == Init /\ [][NextLive]_vars /\ FairCompletion

\* what a webhook or health request on slot p can do when no notification is
\* configured (sendIncidentEmail neither reads nor writes the cache)
Light(p) ==
  \/ SonarqubeWebhook(p)
  \/ Healthz(p)
  \/ HealthzVersion(p)
  \/ OauthOk(p)
  \/ OauthFail(p)
  \/ Wake(p)
  \/ IncidentOk(p)
  \/ IncidentFail(p)

InitOverlap == Init /\ smtp = FALSE

\* two requests in flight at once, each suspended on its own await
NextOverlap == Tick \/ \E p \in Procs : Light(p)

SpecOverlap == InitOverlap /\ [][NextOverlap]_vars

\* ------------------------------------------------ the token cache on its own
\* deep health checks, the caller that does nothing but call getServiceNowToken
NextToken ==
  \/ Tick
  \/ Healthz("A")
  \/ HealthzVersion("A")
  \/ OauthOkAny("A")
  \/ OauthFail("A")

SpecToken == Init /\ [][NextToken]_vars

\* ------------------------------------------- retryOperation on its own
Main == <<cachedToken, tokenExpiry, now, issued, smtp, req, inval>>

\* retryOperation(fn, { retries }) up to its first await
RetryOperation ==
  /\ rx.pc \in {"idle", "returned", "raised"}
  /\ \E r \in 0..MaxRetries :
       rx' = IF LoopGuard(0, r)
             THEN [IdleRetry EXCEPT !.pc = "fn", !.retries = r, !.calls = 1]
             ELSE [IdleRetry EXCEPT !.pc = "raised", !.retries = r,
                                    !.result = Thrown("none")]
  /\ UNCHANGED Main

\* return await fn();
FnReturns ==
  /\ rx.pc = "fn"
  /\ \E v \in OpValues :
       rx' = [rx EXCEPT !.pc = "returned", !.result = v,
                        !.outcomes = Append(@, [ok |-> TRUE, val |-> v])]
  /\ UNCHANGED Main

\* fn() raises: the catch of retryOperation
FnRaises ==
  /\ rx.pc = "fn"
  /\ \E e \in OpErrors :
       LET r1 == [rx EXCEPT !.lastError = Caught(rx.lastError, e),
                            !.outcomes = Append(@, [ok |-> FALSE, val |-> e])]
       IN rx' = IF Exhausted(rx.attempt, rx.retries)
                THEN [r1 EXCEPT !.pc = "raised", !.result = Thrown(r1.lastError)]
                ELSE [r1 EXCEPT !.pc = "sleep"]
  /\ UNCHANGED Main

\* await sleep(delay) ends: attempt++ and the loop goes round
SleepEnds ==
  /\ rx.pc = "sleep"
  /\ rx' = IF LoopGuard(rx.attempt + 1, rx.retries)
           THEN [rx EXCEPT !.pc = "fn", !.attempt = @ + 1, !.calls = @ + 1]
           ELSE [rx EXCEPT !.pc = "raised", !.attempt = @ + 1,
                           !.result = Thrown(rx.lastError)]
  /\ UNCHANGED Main

NextRetry == RetryOperation \/ FnReturns \/ FnRaises \/ SleepEnds

SpecRetry == Init /\ [][NextRetry]_vars

\* ------------------------------------------------------------------ claims
\* the request on slot p took a step in which e happened
Stepped(p, e) == req'[p] # req[p] /\ e \in req'[p].ev

\* the results a batch has so far: in the response once it is sent
Latest(st) ==
  IF st.pc = "done" /\ "results" \in DOMAIN st.response THEN st.response.results
  ELSE st.results

\* the batch on slot p went on to its next key, or responded after the last one
MovedOn(p) ==
  \/ req'[p].pc = "done" /\ req[p].idx = Len(req[p].projectKeys)
  \/ req'[p].pc = "sonar" /\ req'[p].idx = req[p].idx + 1

\* C1: retryOperation invokes the operation at least once and at most
\* retries + 1 times, never again after a success, whose result it returns;
\* when every attempt failed it raises the failure of the last attempt as it is.
RetryContract ==
  rx.pc # "idle" =>
    LET n == Len(rx.outcomes) IN
    /\ rx.calls >= 1
    /\ rx.calls <= rx.retries + 1
    /\ rx.calls = IF rx.pc = "fn" THEN n + 1 ELSE n
    /\ \A i \in 1..n : rx.outcomes[i].ok => i = n /\ rx.pc = "returned"
    /\ rx.pc = "returned" => n >= 1 /\ rx.outcomes[n].ok /\ rx.result = rx.outcomes[n].val
    /\ rx.pc = "raised" =>
         /\ n = rx.retries + 1
         /\ ~rx.outcomes[n].ok
         /\ rx.result = rx.outcomes[n].val

\* three attempts failed, the first and the last differently, and the last is raised
RetryExhausted ==
  /\ rx.pc = "raised"
  /\ rx.retries = 2
  /\ Len(rx.outcomes) = 3
  /\ rx.outcomes[1].val # rx.outcomes[3].val
  /\ rx.result = rx.outcomes[3].val

\* C2: while the cache holds a token whose expiry is more than the buffer away,
\* a call of getServiceNowToken returns that token and starts no OAuth exchange.
CacheValidity ==
  [][\A p \in Procs :
       (/\ Stepped(p, "getServiceNowToken")
        /\ cachedToken # Null
        /\ now < tokenExpiry - 300000)
       => /\ UNCHANGED <<cachedToken, tokenExpiry, issued>>
          /\ req'[p].pc # "oauth"
          /\ req'[p].calls.oauth = 0
          /\ IF req'[p].kind = "healthz"
             THEN req'[p].pc = "done" /\ req'[p].response.oauth_ok
             ELSE req'[p].token = cachedToken /\ ~req'[p].fresh]_vars

\* a request holds the cached token without having fetched it
CacheHit ==
  \E p \in Procs :
    /\ req[p].kind \in {"batch", "webhook"}
    /\ "getServiceNowToken" \in req[p].ev
    /\ req[p].token # Null
    /\ req[p].token = cachedToken
    /\ ~req[p].fresh
    /\ now < tokenExpiry - 300000

\* C3: after a 401 invalidated the cache, the next call of getServiceNowToken
\* starts an OAuth exchange and returns nothing from the cache, also when the
\* expiry stored before has not elapsed.
InvalidationForcesRefresh ==
  [][\A p \in Procs :
       (Stepped(p, "getServiceNowToken") /\ inval.on)
       => /\ req'[p].pc = "oauth"
          /\ req'[p].calls.oauth = req[p].calls.oauth + 1
          /\ req'[p].token # inval.token
          /\ ~(req'[p].pc = "done" /\ req'[p].kind = "healthz")]_vars

\* an exchange was started after a 401, within the validity of the cleared expiry
RefreshAfterInvalidation ==
  \E p \in Procs :
    /\ inval.on
    /\ inval.token # Null
    /\ inval.expiry # Null
    /\ now < inval.expiry - 300000
    /\ req[p].pc = "oauth"
    /\ "getServiceNowToken" \in req[p].ev

\* C4: the results of an accepted batch follow the input: as many records as
\* keys, the i-th about the i-th key, and a key whose processing failed has
\* the status error at its own position.
BatchOrder ==
  /\ [](\A p \in Procs :
          req[p].kind = "batch" =>
            /\ (req[p].pc = "done" /\ req[p].response.code = 200) =>
                 /\ Len(req[p].response.results) = Len(req[p].projectKeys)
                 /\ \A i \in 1..Len(req[p].projectKeys) :
                      req[p].response.results[i].projectKey = req[p].projectKeys[i]
            /\ (req[p].pc # "done" /\ req[p].idx >= 1) =>
                 /\ Len(req[p].results) = req[p].idx - 1
                 /\ \A i \in 1..(req[p].idx - 1) :
                      req[p].results[i].projectKey = req[p].projectKeys[i])
  /\ [][\A p \in Procs :
          (/\ Stepped(p, "sonar_fail") \/ Stepped(p, "incident_fail")
           /\ req[p].kind = "batch"
           /\ req[p].attempt = (IF req[p].pc = "sonar" THEN 2 ELSE 3))
          => /\ Len(Latest(req'[p])) = req[p].idx
             /\ Latest(req'[p])[req[p].idx].projectKey = req[p].projectKeys[req[p].idx]
             /\ Latest(req'[p])[req[p].idx].status = "error"
             /\ MovedOn(p)]_vars

\* a batch of two distinct keys answered: the first failed, the second got a ticket
BatchWithFailure ==
  \E p \in Procs :
    /\ req[p].kind = "batch"
    /\ req[p].pc = "done"
    /\ req[p].response.code = 200
    /\ Len(req[p].projectKeys) = 2
    /\ req[p].projectKeys[1] # req[p].projectKeys[2]
    /\ req[p].response.results[1].status = "error"
    /\ req[p].response.results[2].status = "incident_created"

\* the body of a batch request that is to be rejected
BadBatch(st) ==
  \/ ~st.isArray
  \/ Len(st.projectKeys) = 0
  \/ Len(st.projectKeys) > 50

\* C5: a batch request whose projectKeys is no array, is empty or has more than
\* 50 entries is answered 400 with no downstream call made and the cache as it was.
SizeBound ==
  /\ [](\A p \in Procs :
          (req[p].kind = "batch" /\ BadBatch(req[p])) =>
            /\ req[p].pc = "done"
            /\ req[p].response.code = 400
            /\ req[p].token = Null
            /\ req[p].calls = NoCalls
            /\ "getServiceNowToken" \notin req[p].ev)
  /\ [][\A p \in Procs :
          (Stepped(p, "POST /create-incidents") /\ BadBatch(req'[p]))
          => UNCHANGED <<cachedToken, tokenExpiry, issued>>]_vars

\* a batch of 51 keys was answered 400
OversizeRejected ==
  \E p \in Procs :
    /\ req[p].kind = "batch"
    /\ req[p].isArray
    /\ Len(req[p].projectKeys) = 51
    /\ req[p].pc = "done"
    /\ req[p].response.code = 400

\* C6: a quality-service read that returns no component gives the key the record
\* not_found; the read is not repeated and neither a ticket creation nor a
\* notification is made for the key.
NotFoundTerminal ==
  [][\A p \in Procs :
       Stepped(p, "sonar_empty")
       => /\ req[p].calls.incident = 0
          /\ req[p].calls.email = 0
          /\ Latest(req'[p]) =
               Append(req[p].results,
                      [projectKey |-> req[p].projectKeys[req[p].idx], status |-> "not_found"])
          /\ MovedOn(p)]_vars

\* a read came back empty and the record of the key is not_found
NotFoundRecorded ==
  \E p \in Procs :
    /\ "sonar_empty" \in req[p].ev
    /\ Len(Latest(req[p])) >= 1
    /\ Latest(req[p])[Len(Latest(req[p]))].status = "not_found"

\* the outcome of slot p's step is incident_created with ticket t
Created(p, t) ==
  IF req[p].kind = "batch"
  THEN /\ Latest(req'[p]) =
            Append(req[p].results,
                   [projectKey |-> req[p].projectKeys[req[p].idx],
                    status |-> "incident_created", incident |-> t])
       /\ MovedOn(p)
  ELSE /\ req'[p].pc = "done"
       /\ req'[p].response =
            [code |-> 200, message |-> "Incident created from webhook", incident |-> t]

\* the key the ticket of slot p is about
TicketKey(p) ==
  IF req[p].kind = "batch" THEN req[p].projectKeys[req[p].idx] ELSE req[p].projectKey

\* C7: once the ticket is created the outcome is incident_created with that
\* ticket, whether the notification is skipped, sent or fails; a failed
\* notification raises nothing and the batch goes on to its next key.
NotificationIsolation ==
  [][\A p \in Procs :
       /\ Stepped(p, "incident_ok") =>
            IF smtp
            THEN /\ req'[p].pc = "email"
                 /\ req'[p].incident = <<"INC", TicketKey(p)>>
                 /\ req'[p].results = req[p].results
            ELSE Created(p, <<"INC", TicketKey(p)>>)
       /\ (Stepped(p, "email_sent") \/ Stepped(p, "email_failed")) =>
            /\ req[p].incident = <<"INC", TicketKey(p)>>
            /\ Created(p, req[p].incident)]_vars

\* a notification failed and the record, or the response, is incident_created
NotificationFailed ==
  \E p \in Procs :
    /\ "email_failed" \in req[p].ev
    /\ IF req[p].kind = "batch"
       THEN Latest(req[p])[Len(Latest(req[p]))].status = "incident_created"
       ELSE "incident" \in DOMAIN req[p].response

\* C8: a webhook with a project key and the status OK makes no downstream call,
\* leaves the cache as it was and answers that no action is needed; with any other
\* status, or none, it acquires a token and calls the ticket creation with it.
QualityGatePassThrough ==
  /\ [](\A p \in Procs :
          (req[p].kind = "webhook" /\ req[p].projectKey # "") =>
            IF req[p].status = "OK"
            THEN /\ req[p].pc = "done"
                 /\ req[p].response =
                      [code |-> 200, message |-> "Quality Gate OK, no action needed"]
                 /\ req[p].token = Null
                 /\ req[p].calls = NoCalls
                 /\ "getServiceNowToken" \notin req[p].ev
            ELSE /\ req[p].pc # "done" =>
                      \/ req[p].op = "oauth" /\ req[p].token = Null
                      \/ req[p].token # Null /\ req[p].calls.incident >= 1
                 /\ req[p].pc = "done" =>
                      \/ req[p].response.code = 200 /\ "incident" \in DOMAIN req[p].response
                      \/ req[p].response.code = 500)
  /\ [][\A p \in Procs :
          (Stepped(p, "POST /sonarqube-webhook") /\ req'[p].projectKey # "") =>
            IF req'[p].status = "OK"
            THEN UNCHANGED <<cachedToken, tokenExpiry, issued>>
            ELSE /\ "getServiceNowToken" \in req'[p].ev
                 /\ \/ req'[p].pc = "oauth" /\ req'[p].calls.oauth = 1
                    \/ req'[p].pc = "incident" /\ req'[p].calls.incident = 1]_vars

\* a webhook with the status OK was answered
GateOkAnswered ==
  \E p \in Procs :
    /\ req[p].kind = "webhook"
    /\ req[p].projectKey # ""
    /\ req[p].status = "OK"
    /\ req[p].pc = "done"

\* C9: after a ticket creation was answered 401, the retry of that ticket
\* creation presents a freshly fetched token, not the token the 401 rejected.
RetryPresentsFreshToken ==
  \A p \in Procs :
    (/\ req[p].pc = "incident"
     /\ req[p].attempt > 0
     /\ req[p].lastError = "ServiceNow incident error: 401")
    => req[p].token # inval.token

\* C10: when the token acquisition of a batch fails on its fourth attempt, the
\* batch is answered with an error that carries no results, and no read, ticket
\* creation or notification was or is made for any key.
BatchFatalOnTokenFailure ==
  [][\A p \in Procs :
       (/\ Stepped(p, "oauth_fail")
        /\ req[p].kind = "batch"
        /\ req[p].attempt = 3)
       => /\ req[p].calls = [oauth |-> 4, sonar |-> 0, incident |-> 0, email |-> 0]
          /\ req[p].idx = 0
          /\ req'[p].pc = "done"
          /\ req'[p].response.code = 500
          /\ "results" \notin DOMAIN req'[p].response
          /\ req'[p].calls = NoCalls]_vars

\* a batch was answered 500 after its token acquisition failed
BatchFailedWhole ==
  \E p \in Procs :
    /\ req[p].kind = "batch"
    /\ req[p].pc = "done"
    /\ "oauth_fail" \in req[p].ev
    /\ req[p].response.code = 500
    /\ "results" \notin DOMAIN req[p].response

\* a batch on slot p is in its loop, at a key
InLoop(p) == req[p].kind = "batch" /\ req[p].pc \notin {"idle", "done"} /\ req[p].idx >= 1

\* the read or the ticket creation of slot p's key fails on its last attempt
LastAttemptFails(p) ==
  /\ InLoop(p)
  /\ \/ Stepped(p, "sonar_fail") /\ req[p].pc = "sonar" /\ req[p].attempt = 2
     \/ Stepped(p, "incident_fail") /\ req[p].pc = "incident" /\ req[p].attempt = 3

\* C11: in a batch, a key whose read failed 3 times or whose ticket creation
\* failed 4 times gets exactly one error record, the records before it stay as
\* they were and the loop goes on with the next key, which starts from a clean
\* slate; a record is an error only when a call of its own key failed for good.
ErrorIsolation ==
  [][\A p \in Procs :
       /\ LastAttemptFails(p) =>
            /\ Len(Latest(req'[p])) = Len(req[p].results) + 1
            /\ SubSeq(Latest(req'[p]), 1, Len(req[p].results)) = req[p].results
            /\ Latest(req'[p])[req[p].idx].projectKey = req[p].projectKeys[req[p].idx]
            /\ Latest(req'[p])[req[p].idx].status = "error"
            /\ MovedOn(p)
            /\ req[p].idx < Len(req[p].projectKeys) =>
                 /\ req'[p].pc = "sonar"
                 /\ req'[p].attempt = 0
                 /\ req'[p].lastError = "none"
                 /\ req'[p].calls = [oauth |-> 0, sonar |-> 1, incident |-> 0, email |-> 0]
                 /\ req'[p].token = req[p].token
       /\ (/\ InLoop(p)
           /\ req'[p] # req[p]
           /\ Len(Latest(req'[p])) = Len(req[p].results) + 1
           /\ Latest(req'[p])[Len(req[p].results) + 1].status = "error")
          => LastAttemptFails(p)]_vars

\* the ticket creation of the first key was refused four times, and the second
\* key of the same batch got its ticket
ErrorThenCreated ==
  \E p \in Procs :
    /\ req[p].kind = "batch"
    /\ req[p].pc = "done"
    /\ req[p].response.code = 200
    /\ Len(req[p].response.results) = 2
    /\ req[p].response.results[1].status = "error"
    /\ req[p].response.results[1].error = "ServiceNow incident error: 401"
    /\ req[p].response.results[2].status = "incident_created"

\* C12 as stated: on the webhook path as on the batch path, a quality-service
\* read has been made for the project before a ticket-creation call is made.
ResolveBeforeTicket ==
  \A p \in Procs :
    (req[p].kind \in {"batch", "webhook"} /\ req[p].pc = "incident")
    => req[p].calls.sonar >= 1

\* C12: in a batch the project of each key is read from the quality service, in
\* at most 3 attempts, before the first ticket-creation call for the key, which is
\* made in the very step a component came back; the webhook handler makes no
\* quality-service read at all and goes from the token to the ticket creation.
PipelinePerPath ==
  /\ [](\A p \in Procs :
          /\ (req[p].kind = "batch" /\ req[p].pc = "sonar") =>
               /\ req[p].calls.sonar \in 1..3
               /\ req[p].calls.incident = 0
          /\ (req[p].kind = "batch" /\ req[p].calls.incident >= 1) =>
               req[p].calls.sonar \in 1..3
          /\ req[p].kind = "webhook" =>
               /\ req[p].pc # "sonar"
               /\ req[p].calls.sonar = 0)
  /\ [][\A p \in Procs :
          /\ (InLoop(p) /\ req'[p].idx = req[p].idx /\ req'[p].calls.incident = 1
              /\ req[p].calls.incident = 0)
             => Stepped(p, "sonar_found")
          /\ (req'[p].kind = "webhook" /\ req'[p] # req[p] /\ req'[p].calls.incident = 1
              /\ ~(req[p].kind = "webhook" /\ req[p].calls.incident = 1))
             => /\ Stepped(p, "getServiceNowToken") \/ Stepped(p, "oauth_ok")
                /\ req'[p].pc = "incident"
                /\ req'[p].token # Null]_vars

\* a webhook waits for its ticket creation and no read was made for its project
WebhookTicketUnresolved ==
  \E p \in Procs :
    /\ req[p].kind = "webhook"
    /\ req[p].pc = "incident"
    /\ req[p].token # Null
    /\ req[p].calls.sonar = 0

\* the failures getServiceNowToken raises
TokenFailures ==
  {"ServiceNow OAuth error", "ServiceNow OAuth unreachable",
   "ServiceNow token missing in response"}

\* C13: a failed OAuth exchange makes getServiceNowToken raise: no token is
\* returned, the two cache fields and the tokens issued are as before, the cache
\* holds nothing valid, and the next call of getServiceNowToken starts an exchange.
FailureNotCached ==
  /\ [](\A p \in Procs :
          (req[p].op = "oauth" /\ req[p].pc \in {"oauth", "sleep"}) =>
            /\ req[p].token = Null
            /\ ~(cachedToken # Null /\ tokenExpiry # Null /\ now < tokenExpiry - 300000))
  /\ [][\A p \in Procs :
          /\ Stepped(p, "oauth_fail") =>
               /\ UNCHANGED <<cachedToken, tokenExpiry, issued>>
               /\ req'[p].token = Null
               /\ IF req[p].kind = "healthz"
                  THEN /\ req'[p].pc = "done"
                       /\ req'[p].response.code = 503
                       /\ ~req'[p].response.oauth_ok
                  ELSE IF req[p].attempt = 3
                       THEN /\ req'[p].pc = "done"
                            /\ req'[p].response.code = 500
                            /\ req'[p].response.details \in TokenFailures
                       ELSE /\ req'[p].pc = "sleep"
                            /\ req'[p].lastError \in TokenFailures
                            /\ req'[p].calls = req[p].calls
          /\ (Stepped(p, "getServiceNowToken") /\ "oauth_fail" \in req[p].ev) =>
               /\ req'[p].pc = "oauth"
               /\ req'[p].token = Null
               /\ req'[p].calls.oauth =
                    (IF req[p].pc = "sleep" THEN req[p].calls.oauth + 1 ELSE 1)
               /\ UNCHANGED <<cachedToken, tokenExpiry, issued>>]_vars

\* an exchange failed while the cache held a token past its validity, and the
\* retry is a second exchange: the stored token was not returned
ExchangeRetried ==
  \E p \in Procs :
    /\ req[p].pc = "oauth"
    /\ req[p].calls.oauth = 2
    /\ req[p].lastError \in TokenFailures
    /\ req[p].token = Null
    /\ cachedToken # Null

\* C14: a batch acquires its token once, before its first key: inside the loop
\* there is no call of getServiceNowToken and no OAuth exchange, so the batch makes
\* at most 4 exchanges, and every ticket-creation attempt of every key presents
\* the token the batch held when it entered the loop.
TokenOncePerBatch ==
  /\ [](\A p \in Procs :
          /\ (req[p].kind = "batch" /\ req[p].pc # "done" /\ req[p].idx = 0) =>
               /\ req[p].calls.oauth <= 4
               /\ req[p].calls.sonar = 0
               /\ req[p].calls.incident = 0
          /\ InLoop(p) =>
               /\ req[p].pc # "oauth"
               /\ req[p].op # "oauth"
               /\ req[p].calls.oauth = 0
               /\ req[p].token # Null)
  /\ [][\A p \in Procs :
          /\ (Stepped(p, "getServiceNowToken") /\ req'[p].kind = "batch") =>
               /\ req[p].idx = 0
               /\ req'[p].idx <= 1
          /\ (InLoop(p) /\ req'[p] # req[p]) =>
               /\ "getServiceNowToken" \notin req'[p].ev
               /\ issued' = issued
               /\ req'[p].pc # "done" => req'[p].token = req[p].token]_vars

\* the second key of a batch is at a retry of its ticket creation, with the token
\* the batch started with, which the cache no longer holds
SecondKeySameToken ==
  \E p \in Procs :
    /\ InLoop(p)
    /\ req[p].idx = 2
    /\ req[p].pc = "incident"
    /\ req[p].attempt >= 1
    /\ req[p].token # Null
    /\ cachedToken # req[p].token

\* C15: a batch handles its keys one at a time: while a key is at hand the
\* records of all keys before it, and no other, are in results, and the calls for
\* the key are made in order: 1 to 3 reads, then 1 to 4 ticket creations, then at
\* most one notification, then the record, in the step that starts the next key.
KeysInSequence ==
  /\ [](\A p \in Procs :
          InLoop(p) =>
            /\ req[p].idx <= Len(req[p].projectKeys)
            /\ Len(req[p].results) = req[p].idx - 1
            /\ req[p].pc \in {"sonar", "incident", "email", "sleep"}
            /\ req[p].pc = "sleep" => req[p].op \in {"sonar", "incident"}
            /\ (req[p].pc = "sonar" \/ req[p].op = "sonar") =>
                 /\ req[p].calls.sonar \in 1..3
                 /\ req[p].calls.incident = 0
                 /\ req[p].calls.email = 0
            /\ (req[p].pc = "incident" \/ req[p].op = "incident") =>
                 /\ req[p].calls.sonar \in 1..3
                 /\ req[p].calls.incident \in 1..4
                 /\ req[p].calls.email = 0
            /\ req[p].pc = "email" =>
                 /\ req[p].calls.sonar \in 1..3
                 /\ req[p].calls.incident \in 1..4
                 /\ req[p].calls.email = 1)
  /\ [][\A p \in Procs :
          (InLoop(p) /\ req'[p] # req[p]) =>
            IF req'[p].pc # "done" /\ req'[p].idx = req[p].idx
            THEN /\ req'[p].results = req[p].results
                 /\ req'[p].calls.sonar >= req[p].calls.sonar
                 /\ req'[p].calls.incident >= req[p].calls.incident
                 /\ req'[p].calls.email >= req[p].calls.email
                 /\ req'[p].calls.sonar > req[p].calls.sonar => req[p].calls.incident = 0
                 /\ req'[p].calls.incident > req[p].calls.incident => req[p].calls.email = 0
            ELSE /\ Len(Latest(req'[p])) = req[p].idx
                 /\ Latest(req'[p])[req[p].idx].projectKey = req[p].projectKeys[req[p].idx]
                 /\ MovedOn(p)
                 /\ req'[p].pc = "sonar" =>
                      req'[p].calls = [oauth |-> 0, sonar |-> 1, incident |-> 0, email |-> 0]]_vars

\* the second key of a batch awaits its notification after a repeated read and a
\* repeated ticket creation, with the record of the first key in results
SecondKeyNotifying ==
  \E p \in Procs :
    /\ InLoop(p)
    /\ req[p].idx = 2
    /\ req[p].pc = "email"
    /\ req[p].calls.sonar >= 2
    /\ req[p].calls.incident >= 2
    /\ Len(req[p].results) = 1

\* C16: getServiceNowToken has no single-flight guard: a call that finds the
\* cache empty or expired starts an exchange of its own, whatever the other
\* request is waiting for; the cache is one slot, which every exchange that
\* succeeds overwrites, so that it holds the credential of the exchange that
\* completed last, or nothing.
NoSingleFlight ==
  /\ [](cachedToken \in {Null, issued})
  /\ [][\A p \in Procs :
          /\ (/\ Stepped(p, "getServiceNowToken")
              /\ ~(cachedToken # Null /\ tokenExpiry # Null /\ now < tokenExpiry - 300000))
             => /\ req'[p].pc = "oauth"
                /\ req'[p].calls.oauth >= 1
          /\ Stepped(p, "oauth_ok") =>
               /\ issued' = issued + 1
               /\ cachedToken' = issued'
               /\ tokenExpiry' \in {now + 1800000, now + 300000}
               /\ req'[p].pc # "done" => req'[p].token = cachedToken'
          /\ (\A q \in Procs : ~Stepped(q, "oauth_ok")) =>
               cachedToken' \in {cachedToken, Null}]_vars

\* two OAuth exchanges are in flight at once
TwoExchangesInFlight ==
  /\ req["A"].pc = "oauth"
  /\ req["B"].pc = "oauth"
  /\ req["A"].kind = "webhook"
  /\ req["B"].kind = "webhook"

\* C17: in every state, also between the steps of overlapping requests, the two
\* cache fields are both null or both set.
CacheFieldsAgree == (cachedToken = Null) <=> (tokenExpiry = Null)

\* a 401 of one request cleared the cache that an exchange had filled, while the
\* other request is waiting for an exchange of its own
ClearedWhileOtherFetches ==
  \E p, q \in Procs :
    /\ p # q
    /\ "incident_fail" \in req[p].ev
    /\ req[p].token # Null
    /\ inval.on
    /\ inval.expiry # Null
    /\ cachedToken = Null
    /\ tokenExpiry = Null
    /\ req[q].pc = "oauth"

\* C18: a 401 clears only the credential it rejected: when the ticket creation of
\* a request is answered 401 for the token it presented while the cache holds a
\* different, newer token that is still valid, the cache is left as it is.
InvalidationSparesNewer ==
  [][\A p \in Procs :
       (/\ Stepped(p, "incident_fail")
        /\ \/ req'[p].lastError = "ServiceNow incident error: 401"
           \/ /\ req'[p].pc = "done"
              /\ req'[p].response.details = "ServiceNow incident error: 401"
        /\ cachedToken # Null
        /\ cachedToken # req[p].token
        /\ now < tokenExpiry - 300000)
       => UNCHANGED <<cachedToken, tokenExpiry>>]_vars

\* C19 as stated: whatever lifetime the exchange returned, the credential just
\* stored passes the cache check of a call made at once.
StoredThenServed ==
  [][\A p \in Procs :
       Stepped(p, "oauth_ok") => (cachedToken' # Null /\ now' < tokenExpiry' - 300000)]_vars

\* C19: a credential is served from the cache only while its expiry is more than
\* 300 seconds away: stored with expires_in absent (1800), 301 or 3600 it is
\* served by a call made at once, stored with expires_in 300 or 1 it is served
\* by no call at all, and a call made at once starts a new exchange.
BufferBoundsReuse ==
  [][\A p \in Procs :
       /\ Stepped(p, "oauth_ok") =>
            /\ cachedToken' = issued + 1
            /\ tokenExpiry' - now \in {1800000, 1000, 300000, 301000, 3600000}
            /\ (now' < tokenExpiry' - 300000) <=>
                 (tokenExpiry' - now \in {1800000, 301000, 3600000})
       /\ (Stepped(p, "getServiceNowToken") /\ cachedToken # Null) =>
            IF tokenExpiry - now > 300000
            THEN /\ req'[p].pc # "oauth"
                 /\ UNCHANGED <<cachedToken, tokenExpiry, issued>>
                 /\ req'[p].kind = "healthz" => req'[p].response.oauth_ok
            ELSE /\ req'[p].pc = "oauth"
                 /\ req'[p].calls.oauth = req[p].calls.oauth + 1]_vars

\* a credential stored with a lifetime of 300 seconds is in the cache, no time has
\* passed, and a call of getServiceNowToken has started a new exchange
ShortLivedRefetched ==
  \E p \in Procs :
    /\ now = 0
    /\ cachedToken # Null
    /\ tokenExpiry = 300000
    /\ req[p].pc = "oauth"
    /\ "getServiceNowToken" \in req[p].ev

\* a request is being handled on slot p
Pending(p) == req[p].pc \notin {"idle", "done"}

\* C20: when every call returns or fails and every sleep ends, a request that
\* was accepted is answered, once: until then nothing is sent, and afterwards its
\* handler does nothing more. On the way it makes at most 4 OAuth exchanges and,
\* for each key of a batch or for the webhook, at most 3 reads, 4 ticket creations
\* and 1 notification.
BoundedTermination ==
  /\ Pending("A") ~> (req["A"].pc = "done")
  /\ [](\A p \in Procs :
          /\ req[p].calls.oauth <= 4
          /\ req[p].calls.sonar <= 3
          /\ req[p].calls.incident <= 4
          /\ req[p].calls.email <= 1
          /\ req[p].kind = "webhook" => req[p].calls.sonar = 0
          /\ req[p].idx <= Len(req[p].projectKeys) + 1
          /\ Pending(p) => req[p].response = [code |-> 0]
          /\ req[p].pc = "done" => req[p].response.code \in {200, 400, 500, 503})
  /\ [][\A p \in Procs :
          /\ (req[p].pc = "done" /\ req'[p] # req[p]) =>
               \/ Stepped(p, "POST /create-incidents")
               \/ Stepped(p, "POST /sonarqube-webhook")
               \/ Stepped(p, "GET /healthz")
          /\ (Pending(p) /\ req'[p] # req[p]) =>
               /\ req'[p].kind = req[p].kind
               /\ req'[p].projectKeys = req[p].projectKeys
               /\ req'[p].idx >= req[p].idx \/ req'[p].pc = "done"]_vars

\* the second key of a batch has used up what a key may use: 3 reads and 4
\* ticket creations, and its notification is under way
KeyBudgetUsed ==
  \E p \in Procs :
    /\ req[p].kind = "batch"
    /\ req[p].idx = 2
    /\ req[p].pc = "email"
    /\ req[p].calls = [oauth |-> 0, sonar |-> 3, incident |-> 4, email |-> 1]
====
